---- MODULE Spec2Model ----
(***************************************************************************)
(* Model of the P360 Analytics API (src/main.py): answer-key matching and  *)
(* metrics aggregation.  The database tables are sequences of rows in      *)
(* table order, strings are sequences of one-character strings, a pandas   *)
(* DataFrame is a sequence of row records (the empty sequence is the       *)
(* column-less DataFrame()), and a mean is kept exact as the pair          *)
(* [soma, n] of the sum and the count of the averaged 0/1 values.          *)
(***************************************************************************)
EXTENDS Integers, Sequences, FiniteSets, TLC

VARIABLES GABARITO_CACHE, DF_MAPA_CACHE, alunos, localidades, resp, emCurso

vars == <<GABARITO_CACHE, DF_MAPA_CACHE, alunos, localidades, resp, emCurso>>

(***************************************************************************)
(* Bounds of the model                                                     *)
(***************************************************************************)
\* rows of the Aluno table
MaxAlunos == 2
\* length of the exhaustively enumerated response strings
MaxLen == 1
\* length of the shorter of the two long response strings
LongLen == 34
\* requests whose handlers run at the same time
MaxEmCurso == 2

(***************************************************************************)
(* Program constants                                                       *)
(***************************************************************************)
\* the number of questions of a booklet
NumQuestoes == 100
ANULADAS == {"X", "Z", "*"}

Cursos == {1, 2}
Cadernos == {1, 2}
SimbolosResposta == {"A", "a", " "}
UFs == {"SP", "RJ"}

(***************************************************************************)
(* Generic helpers                                                         *)
(***************************************************************************)
Min(a, b) == IF a <= b THEN a ELSE b

SetMax(S) == CHOOSE x \in S : \A y \in S : y <= x

Range(s) == {s[i] : i \in DOMAIN s}

Rep(c, n) == [i \in 1..n |-> c]

RECURSIVE SumSeq(_)
SumSeq(s) == IF s = <<>> THEN 0 ELSE Head(s) + SumSeq(Tail(s))

\* the strings over SimbolosResposta of length at most n
StringsUpTo(n) == UNION {[1..k -> SimbolosResposta] : k \in 0..n}

\* "A" followed by n-1 times "B"
LongResp(n) == [i \in 1..n |-> IF i = 1 THEN "A" ELSE "B"]

RespPool == StringsUpTo(MaxLen) \cup {LongResp(LongLen), LongResp(LongLen + 1)}

(***************************************************************************)
(* Rows of the four tables (src/models.py)                                 *)
(***************************************************************************)
Gabarito(cad, key) == [co_caderno |-> cad, respostas_gabarito |-> key]

QuestaoMapeamento(cad, q, t) ==
    [co_caderno |-> cad, nu_questao |-> q, grande_area |-> t[1],
     subespecialidade |-> t[2], diagnostico |-> t[3]]

Localidade(c, uf) == [co_curso |-> c, sigla_estado |-> uf]

Aluno(id, c, cad, res) ==
    [id |-> id, co_curso |-> c, co_caderno |-> cad,
     ies_nome |-> IF c = 1 THEN "IES-1" ELSE "IES-2",
     enamed_ies |-> IF c = 1 THEN "5" ELSE "3",
     respostas |-> res]

\* topics used by the mapping rows; the strings of a column compare as in
\* Python, which StrOrd records for the strings used here
T1 == <<"Clinica", "Cardio", "HAS">>
T2 == <<"Clinica", "Cardio", "IAM">>
T3 == <<"Cirurgia", "Geral", "Hernia">>

StrOrd ==
    <<"Cardio", "Cirurgia", "Clinica", "Geral", "HAS", "Hernia", "IAM">>

\* a key of NumQuestoes symbols: "A", an annulled question, then "B"
ChaveCompleta ==
    [i \in 1..NumQuestoes |-> IF i = 1 THEN "A" ELSE IF i = 2 THEN "X" ELSE "B"]

\* the contents of the Gabarito, QuestaoMapeamento and Localidade tables at
\* startup
Contextos ==
    { \* answered and annulled positions, every scored question mapped
      [gabaritos |-> <<Gabarito(1, <<"A", "X">>), Gabarito(2, <<"*">>)>>,
       mapas |-> <<QuestaoMapeamento(1, 1, T1), QuestaoMapeamento(1, 2, T2),
                   QuestaoMapeamento(2, 1, T1)>>,
       localidades |-> <<Localidade(1, "SP"), Localidade(2, "RJ")>>],
      \* booklet 2 has mapping rows but no answer key
      [gabaritos |-> <<Gabarito(1, <<"A">>)>>,
       mapas |-> <<QuestaoMapeamento(1, 1, T1), QuestaoMapeamento(2, 1, T3)>>,
       localidades |-> <<Localidade(1, "SP"), Localidade(2, "SP")>>],
      \* two mapping rows for (booklet 1, question 1), two key rows for
      \* booklet 2
      [gabaritos |-> <<Gabarito(2, <<"A">>), Gabarito(1, <<"A">>),
                       Gabarito(2, <<"Z">>)>>,
       mapas |-> <<QuestaoMapeamento(1, 1, T1), QuestaoMapeamento(1, 1, T2),
                   QuestaoMapeamento(2, 1, T1)>>,
       localidades |-> <<Localidade(1, "SP")>>],
      \* a key long enough for the long responses, booklet 2 unmapped
      [gabaritos |-> <<Gabarito(1, Rep("A", LongLen + 1)),
                       Gabarito(2, <<"A">>)>>,
       mapas |-> <<QuestaoMapeamento(1, 1, T1)>>,
       localidades |-> <<Localidade(1, "SP"), Localidade(2, "RJ")>>],
      \* no mapping rows
      [gabaritos |-> <<Gabarito(1, <<"A">>)>>,
       mapas |-> <<>>,
       localidades |-> <<>>],
      \* no answer keys
      [gabaritos |-> <<>>,
       mapas |-> <<QuestaoMapeamento(1, 1, T1)>>,
       localidades |-> <<Localidade(1, "SP"), Localidade(2, "RJ")>>],
      \* a complete booklet: a key of NumQuestoes symbols and one mapping row
      \* for each of its questions
      [gabaritos |-> <<Gabarito(1, ChaveCompleta)>>,
       mapas |-> [q \in 1..NumQuestoes |->
                     QuestaoMapeamento(1, q, IF q = 1 THEN T1 ELSE T3)],
       localidades |-> <<Localidade(1, "SP"), Localidade(2, "SP")>>] }

(***************************************************************************)
(* carregar_contexto: the two caches built at import time                  *)
(***************************************************************************)
\* {g.co_caderno: list(g.respostas_gabarito) for g in gabs}: the last row of
\* a booklet wins
gabarito_map(gabs) ==
    [k \in {gabs[i].co_caderno : i \in DOMAIN gabs} |->
        gabs[SetMax({i \in DOMAIN gabs : gabs[i].co_caderno = k})]
            .respostas_gabarito]

\* the pair (gabarito_map, df_mapa); without keys the mapping rows are not
\* read at all
carregar_contexto(gabs, mapas) ==
    IF gabs = <<>>
    THEN [gabarito_map |-> <<>>, df_mapa |-> <<>>]
    ELSE [gabarito_map |-> gabarito_map(gabs), df_mapa |-> mapas]

\* GABARITO_CACHE.get(caderno): None and the empty list are both falsy and
\* every caller only tests `not gab`, so both are the empty sequence here
CacheGet(caderno) ==
    IF caderno \in DOMAIN GABARITO_CACHE THEN GABARITO_CACHE[caderno] ELSE <<>>

Init ==
    \E c \in Contextos :
        /\ GABARITO_CACHE = carregar_contexto(c.gabaritos, c.mapas).gabarito_map
        /\ DF_MAPA_CACHE = carregar_contexto(c.gabaritos, c.mapas).df_mapa
        /\ localidades = c.localidades
        /\ alunos = <<>>
        /\ resp = [op |-> "none"]
        /\ emCurso = <<>>

(***************************************************************************)
(* importar_alunos (src/db_creator.py): one more row of the Aluno table    *)
(***************************************************************************)
importar_alunos ==
    /\ resp.op = "none"
    /\ Len(alunos) < MaxAlunos
    /\ \E c \in Cursos, cad \in Cadernos, res \in RespPool :
          alunos' = Append(alunos, Aluno(Len(alunos) + 1, c, cad, res))
    /\ UNCHANGED <<GABARITO_CACHE, DF_MAPA_CACHE, localidades, resp, emCurso>>

\* the response of the last request has been delivered
Entregar ==
    /\ resp.op # "none"
    /\ resp' = [op |-> "none"]
    /\ UNCHANGED <<GABARITO_CACHE, DF_MAPA_CACHE, alunos, localidades, emCurso>>


(***************************************************************************)
(* Rounding: round(x, k) of the exact ratio num/den, to the nearest        *)
(* integer with ties to the even one (the value is kept scaled by 10^k).   *)
(* Python rounds the float nearest to the ratio; the two can only differ   *)
(* when the ratio is within a float error of a tie.                        *)
(***************************************************************************)
RoundHalfEven(num, den) ==
    LET q == num \div den
        r == num % den
    IN  IF 2 * r < den THEN q
        ELSE IF 2 * r > den THEN q + 1
        ELSE IF q % 2 = 0 THEN q ELSE q + 1

(***************************************************************************)
(* Scoring of one record on the raw symbols, as obter_ranking_ies and      *)
(* calcular_media_lista do it.  Position i here is index i-1 in the code.  *)
(***************************************************************************)
\* range(min(len(res), 100))
Posicoes(res) == 1..Min(Len(res), NumQuestoes)

\* gab[i] raises IndexError at the first position past the end of the key
RaisesIndexError(res, gab) == \E i \in Posicoes(res) : i > Len(gab)

\* AcertoBruto without the annulled markers
AcertoBruto_SemAnuladas(res, gab, i) ==
    IF res[i] = gab[i] THEN 1 ELSE 0

\* gab[i] in ['X','Z','*'] or res[i] == gab[i]
AcertoBruto(res, gab, i) ==
    IF gab[i] \in ANULADAS \/ res[i] = gab[i] THEN 1 ELSE 0

AcertosBrutos(res, gab) ==
    Cardinality({i \in Posicoes(res) : AcertoBruto(res, gab, i) = 1})

\* the records of `lista` that have a truthy key
ComGabarito(lista) == SelectSeq(lista, LAMBDA a : CacheGet(a.co_caderno) # <<>>)

\* some record of `lista` makes the scoring loop raise
ListaRaises(lista) ==
    \E k \in DOMAIN lista :
        /\ CacheGet(lista[k].co_caderno) # <<>>
        /\ RaisesIndexError(lista[k].respostas, CacheGet(lista[k].co_caderno))

\* the pair (acertos, total) accumulated over `lista`
Acumula(lista) ==
    LET cg == ComGabarito(lista)
    IN  [acertos |-> SumSeq([k \in DOMAIN cg |->
                        AcertosBrutos(cg[k].respostas, CacheGet(cg[k].co_caderno))]),
         total |-> SumSeq([k \in DOMAIN cg |-> Cardinality(Posicoes(cg[k].respostas))])]

(***************************************************************************)
(* sorted(seq, key, reverse): Python's sort is stable, also when reversed  *)
(***************************************************************************)
\* the position of seq[k] in the sorted list; antes[j][k] says that the key
\* of seq[j] sorts strictly before the key of seq[k]
SortedPos(seq, k, antes) ==
    Cardinality({j \in DOMAIN seq :
        \/ antes[j][k]
        \/ (~antes[k][j] /\ j <= k)})

StableSort(seq, antes) ==
    [n \in DOMAIN seq |->
        seq[CHOOSE k \in DOMAIN seq : SortedPos(seq, k, antes) = n]]

(***************************************************************************)
(* obter_ranking_ies                                                       *)
(***************************************************************************)
\* SelecionaAlunos without the `if uf:` branch: the statement is never
\* restricted to the region
SelecionaAlunos_SemFiltro(uf) == alunos

\* the Aluno rows selected by the statement; uf = "" stands for None
SelecionaAlunos(uf) ==
    IF uf = "" THEN alunos
    ELSE SelectSeq(alunos, LAMBDA a :
            \E k \in DOMAIN localidades :
                /\ localidades[k].sigla_estado = uf
                /\ localidades[k].co_curso = a.co_curso)

\* the keys of the dict `resultados` in insertion order
OrdemCursos(todos) ==
    LET prim == SelectSeq([k \in DOMAIN todos |-> k], LAMBDA k :
                    \A j \in 1..(k - 1) : todos[j].co_curso # todos[k].co_curso)
    IN  [n \in DOMAIN prim |-> todos[prim[n]].co_curso]

\* the value of resultados[cid] after the loop
Resultado(todos, cid) ==
    LET doCurso == SelectSeq(todos, LAMBDA a : a.co_curso = cid)
        ac == Acumula(doCurso)
    IN  [nome |-> doCurso[1].ies_nome, acertos |-> ac.acertos,
         total |-> ac.total, co_curso |-> cid]

\* MediaRanking without the `if dados["total"] > 0` test: the division by
\* zero it would raise is shown as the value -1
MediaRanking_SemGuarda(dados) ==
    IF dados.total > 0 THEN RoundHalfEven(dados.acertos * 1000, dados.total) ELSE -1

\* round(media, 1) in tenths of a percent
MediaRanking(dados) ==
    IF dados.total > 0 THEN RoundHalfEven(dados.acertos * 1000, dados.total) ELSE 0

RankingNaoOrdenado(todos) ==
    LET ord == OrdemCursos(todos)
    IN  [n \in DOMAIN ord |->
            LET dados == Resultado(todos, ord[n])
            IN  [co_curso |-> ord[n], nome |-> dados.nome,
                 media |-> MediaRanking(dados),
                 acertos |-> dados.acertos, total |-> dados.total]]

\* OrdenaRanking without reverse=True
OrdenaRanking_Crescente(ranking) ==
    StableSort(ranking, [j \in DOMAIN ranking |-> [k \in DOMAIN ranking |->
                            ranking[j].media < ranking[k].media]])

\* sorted(ranking, key=lambda x: x['media'], reverse=True)
OrdenaRanking(ranking) ==
    StableSort(ranking, [j \in DOMAIN ranking |-> [k \in DOMAIN ranking |->
                            ranking[j].media > ranking[k].media]])

\* Posicao as the 0-based index
Posicao_BaseZero(ranking, co_curso) ==
    LET idx == {k \in DOMAIN ranking : ranking[k].co_curso = co_curso}
    IN  IF idx = {} THEN 0 ELSE (CHOOSE k \in idx : \A j \in idx : k <= j) - 1

\* next((i for i, item in enumerate(ranking) if ...), 0) + 1
Posicao(ranking, co_curso) ==
    LET idx == {k \in DOMAIN ranking : ranking[k].co_curso = co_curso}
    IN  (IF idx = {} THEN 0 ELSE (CHOOSE k \in idx : \A j \in idx : k <= j) - 1) + 1

\* the returned triple, or the IndexError of the scoring loop.  The entries
\* also carry the exact counts acertos and total behind `media`.
obter_ranking_ies(co_curso, uf) ==
    LET todos == SelecionaAlunos(uf)
        ranking == OrdenaRanking(RankingNaoOrdenado(todos))
    IN  IF ListaRaises(todos)
        THEN [op |-> "ranking", co_curso |-> co_curso, uf |-> uf,
              status |-> "IndexError"]
        ELSE [op |-> "ranking", co_curso |-> co_curso, uf |-> uf,
              status |-> "ok", ranking |-> ranking,
              posicao |-> Posicao(ranking, co_curso), total |-> Len(ranking)]

ObterRankingIes ==
    /\ resp.op = "none"
    /\ \E co_curso \in Cursos, uf \in UFs \cup {""} :
          resp' = obter_ranking_ies(co_curso, uf)
    /\ UNCHANGED <<GABARITO_CACHE, DF_MAPA_CACHE, alunos, localidades, emCurso>>

(***************************************************************************)
(* pandas helpers                                                          *)
(***************************************************************************)
StrPos(str) == CHOOSE i \in DOMAIN StrOrd : StrOrd[i] = str

\* tuples of strings of the same length compare lexicographically
RECURSIVE ChaveLt(_, _)
ChaveLt(k1, k2) ==
    IF k1 = <<>> THEN FALSE
    ELSE IF Head(k1) # Head(k2) THEN StrPos(Head(k1)) < StrPos(Head(k2))
    ELSE ChaveLt(Tail(k1), Tail(k2))

\* the elements of the set S of keys in ascending order
ChavesOrdenadas(S) ==
    [n \in 1..Cardinality(S) |->
        CHOOSE k \in S : Cardinality({j \in S : ChaveLt(j, k)}) = n - 1]

\* the rows of `right` with the question and booklet of the row l, in the
\* order of `right`
Casadas(l, right) ==
    SelectSeq(right, LAMBDA r : /\ r.nu_questao = l.nu_questao
                                /\ r.co_caderno = l.co_caderno)

\* the joined rows of the rows a..b of `left`
RECURSIVE MergeEntre(_, _, _, _)
MergeEntre(left, right, a, b) ==
    IF a > b THEN <<>>
    ELSE IF a = b
    THEN LET l == left[a]
             casadas == Casadas(l, right)
         IN  [j \in DOMAIN casadas |->
                 [aluno_registro_id |-> l.aluno_registro_id,
                  co_caderno |-> l.co_caderno,
                  nu_questao |-> l.nu_questao,
                  acerto |-> l.acerto,
                  grande_area |-> casadas[j].grande_area,
                  subespecialidade |-> casadas[j].subespecialidade,
                  diagnostico |-> casadas[j].diagnostico]]
    ELSE MergeEntre(left, right, a, (a + b) \div 2)
         \o MergeEntre(left, right, (a + b) \div 2 + 1, b)

\* pd.merge(left, right, on=['nu_questao', 'co_caderno']), an inner join that
\* keeps the order of the left rows and, for one left row, the order of the
\* matching right rows; every matching pair gives one row
MergeMapa(left, right) == MergeEntre(left, right, 1, Len(left))

\* the key columns of the frame df, row by row
Chave3(df) ==
    [k \in DOMAIN df |->
        <<df[k].grande_area, df[k].subespecialidade, df[k].diagnostico>>]
Chave2(df) == [k \in DOMAIN df |-> <<df[k].grande_area, df[k].subespecialidade>>]
Chave1(df) == [k \in DOMAIN df |-> <<df[k].grande_area>>]

\* df.groupby(keys)['acerto'].mean().reset_index(), colunas[k] being the key
\* of row k: one row per key, in ascending key order; the mean is the pair
\* [soma, n]
GroupByMean(df, colunas) ==
    LET chaves == ChavesOrdenadas(Range(colunas))
    IN  [g \in DOMAIN chaves |->
            LET rows == {k \in DOMAIN df : colunas[k] = chaves[g]}
            IN  [chave |-> chaves[g],
                 acerto |-> [soma |-> Cardinality({k \in rows : df[k].acerto = 1}),
                             n |-> Cardinality(rows)]]]

(***************************************************************************)
(* calcular_metricas_curso                                                 *)
(***************************************************************************)
\* respostas padded with ' ' to 100 symbols and cut at 100
Respostas100(res) ==
    [q \in 1..NumQuestoes |-> IF q <= Len(res) THEN res[q] ELSE " "]

\* df_corr[col] of the row of `al`: 0 unless the booklet has a key, the key
\* reaches the column and the key symbol is annulled or equals the response
Corrige(al, q) ==
    LET gab == CacheGet(al.co_caderno)
    IN  IF gab = <<>> THEN 0
        ELSE IF q > Len(gab) THEN 0
        ELSE IF gab[q] \in ANULADAS THEN 1
        ELSE IF Respostas100(al.respostas)[q] = gab[q] THEN 1 ELSE 0

\* df_corr.melt(...): question by question, the students in table order
DfLong(lista) ==
    LET n == Len(lista)
    IN  [k \in 1..(NumQuestoes * n) |->
            LET q == ((k - 1) \div n) + 1
                al == lista[((k - 1) % n) + 1]
            IN  [aluno_registro_id |-> al.id, co_caderno |-> al.co_caderno,
                 nu_questao |-> q, acerto |-> Corrige(al, q)]]

\* None without students; the merge raises KeyError on the column-less
\* DF_MAPA_CACHE
calcular_metricas_curso(co_curso) ==
    LET lista == SelectSeq(alunos, LAMBDA a : a.co_curso = co_curso)
    IN  IF lista = <<>> THEN [status |-> "None", df |-> <<>>]
        ELSE IF DF_MAPA_CACHE = <<>> THEN [status |-> "KeyError", df |-> <<>>]
        ELSE [status |-> "ok", df |-> MergeMapa(DfLong(lista), DF_MAPA_CACHE)]

CalcularMetricasCurso ==
    /\ resp.op = "none"
    /\ \E co_curso \in Cursos :
          resp' = [op |-> "metricas", co_curso |-> co_curso,
                   status |-> calcular_metricas_curso(co_curso).status,
                   df |-> calcular_metricas_curso(co_curso).df]
    /\ UNCHANGED <<GABARITO_CACHE, DF_MAPA_CACHE, alunos, localidades, emCurso>>

(***************************************************************************)
(* obter_referencial_nacional                                              *)
(***************************************************************************)
\* str(c).strip().upper() of one symbol
Normaliza(c) ==
    IF c = " " THEN ""
    ELSE IF c = "a" THEN "A"
    ELSE IF c = "b" THEN "B"
    ELSE IF c = "x" THEN "X"
    ELSE IF c = "z" THEN "Z"
    ELSE c

AcertoNormalizado(res, gab, i) ==
    IF Normaliza(gab[i]) \in ANULADAS THEN 1
    ELSE IF Normaliza(res[i]) = Normaliza(gab[i]) THEN 1 ELSE 0

\* lista_acertos: the records with a key in table order, their positions in
\* ascending order
RECURSIVE ListaAcertos(_)
ListaAcertos(lista) ==
    IF lista = <<>> THEN <<>>
    ELSE LET al == Head(lista)
             gab == CacheGet(al.co_caderno)
             n == Cardinality(Posicoes(al.respostas))
         IN  (IF gab = <<>> THEN <<>>
              ELSE [i \in 1..n |->
                      [aluno_registro_id |-> al.id, co_caderno |-> al.co_caderno,
                       nu_questao |-> i,
                       acerto |-> AcertoNormalizado(al.respostas, gab, i)]])
             \o ListaAcertos(Tail(lista))

\* the per-topic means over the whole population; IndexError from gab[i],
\* KeyError from the merge when lista_acertos is empty (a column-less
\* DataFrame) or DF_MAPA_CACHE is column-less
obter_referencial_nacional ==
    IF ListaRaises(alunos) THEN [status |-> "IndexError", lista |-> <<>>, df |-> <<>>]
    ELSE IF ListaAcertos(alunos) = <<>> \/ DF_MAPA_CACHE = <<>>
    THEN [status |-> "KeyError", lista |-> ListaAcertos(alunos), df |-> <<>>]
    ELSE [status |-> "ok", lista |-> ListaAcertos(alunos),
          df |-> GroupByMean(MergeMapa(ListaAcertos(alunos), DF_MAPA_CACHE),
                            Chave3(MergeMapa(ListaAcertos(alunos), DF_MAPA_CACHE)))]

ObterReferencialNacional ==
    /\ resp.op = "none"
    /\ resp' = [op |-> "referencial", status |-> obter_referencial_nacional.status,
                lista |-> obter_referencial_nacional.lista,
                df |-> obter_referencial_nacional.df]
    /\ UNCHANGED <<GABARITO_CACHE, DF_MAPA_CACHE, alunos, localidades, emCurso>>

(***************************************************************************)
(* GET /ies/{co_curso}/dashboard                                           *)
(***************************************************************************)
\* Comparativo as a left join in which a key missing from the reference
\* counts as a reference mean of 0
Comparativo_EsquerdaComZero(agrupado_ies, df_referencial) ==
    [n \in DOMAIN agrupado_ies |->
        LET g == agrupado_ies[n]
            r == IF \E k \in DOMAIN df_referencial : df_referencial[k].chave = g.chave
                 THEN df_referencial[CHOOSE k \in DOMAIN df_referencial :
                                         df_referencial[k].chave = g.chave].acerto
                 ELSE [soma |-> 0, n |-> 1]
        IN  [chave |-> g.chave, acerto |-> g.acerto, media_nacional |-> r,
             gap |-> [num |-> 100 * (g.acerto.soma * r.n - r.soma * g.acerto.n),
                      den |-> g.acerto.n * r.n]]]

\* pd.merge(agrupado_ies, df_referencial, on=the three key columns) and the
\* gap column; gap is the exact ratio num/den of
\* (acerto - media_nacional) * 100
Comparativo(agrupado_ies, df_referencial) ==
    LET comuns == SelectSeq(agrupado_ies, LAMBDA g :
                      \E k \in DOMAIN df_referencial :
                          df_referencial[k].chave = g.chave)
    IN  [n \in DOMAIN comuns |->
            LET g == comuns[n]
                r == df_referencial[CHOOSE k \in DOMAIN df_referencial :
                                        df_referencial[k].chave = g.chave]
            IN  [chave |-> g.chave, acerto |-> g.acerto,
                 media_nacional |-> r.acerto,
                 gap |-> [num |-> 100 * (g.acerto.soma * r.acerto.n
                                         - r.acerto.soma * g.acerto.n),
                          den |-> g.acerto.n * r.acerto.n]]]

\* a/b < c/d for positive b and d, by integer parts and then the
\* reciprocals of the fractional parts, so that no product is formed
RECURSIVE RazaoLt(_, _, _, _)
RazaoLt(a, b, c, d) ==
    IF a \div b # c \div d THEN a \div b < c \div d
    ELSE IF c % d = 0 THEN FALSE
    ELSE IF a % b = 0 THEN TRUE
    ELSE RazaoLt(d, c % d, b, a % b)

\* x.gap < y.gap for gaps with positive denominators
GapLt(x, y) == RazaoLt(x.gap.num, x.gap.den, y.gap.num, y.gap.den)

\* the permutations of 1..n
Permutacoes(n) ==
    {p \in [1..n -> 1..n] : \A i, j \in 1..n : i # j => p[i] # p[j]}

\* sort_values('gap', ascending=...) with the default kind='quicksort',
\* which is not a stable sort: the rows come out ordered by gap, and rows
\* of equal gap in an order that depends on the numpy build and on the
\* length of the frame.  The set of the frames it can return.
SortGap(df, ascending) ==
    {[n \in DOMAIN df |-> df[p[n]]] :
        p \in {q \in Permutacoes(Len(df)) :
                  \A j, k \in DOMAIN df :
                      j < k => IF ascending THEN ~GapLt(df[q[k]], df[q[j]])
                               ELSE ~GapLt(df[q[j]], df[q[k]])}}

SomaAcerto(df) == SumSeq([k \in DOMAIN df |-> df[k].acerto])

dashboard_completo(co_curso) ==
    LET m == calcular_metricas_curso(co_curso)
        ref == obter_referencial_nacional
        agrupado_ies == GroupByMean(m.df, Chave3(m.df))
        df_comparativo == Comparativo(agrupado_ies, ref.df)
        base == [op |-> "dashboard", co_curso |-> co_curso]
    IN  IF m.status = "KeyError" THEN {base @@ [status |-> 500]}
        ELSE IF m.status = "None" \/ m.df = <<>> THEN {base @@ [status |-> 404]}
        ELSE IF ref.status # "ok" THEN {base @@ [status |-> 500]}
        ELSE {base @@
             [status |-> 200,
              ies |-> SelectSeq(alunos, LAMBDA a : a.co_curso = co_curso)[1].ies_nome,
              media_geral |-> RoundHalfEven(SomaAcerto(m.df) * 10000, Len(m.df)),
              media_geral_ies |-> [soma |-> SomaAcerto(m.df), n |-> Len(m.df)],
              alunos |-> Cardinality({m.df[k].aluno_registro_id : k \in DOMAIN m.df}),
              agrupado_ies |-> agrupado_ies,
              df_referencial |-> ref.df,
              fortalezas |-> fortalezas,
              atencao |-> atencao] :
                 fortalezas \in SortGap(df_comparativo, FALSE),
                 atencao \in SortGap(df_comparativo, TRUE)}

DashboardCompleto ==
    /\ resp.op = "none"
    /\ \E co_curso \in Cursos : resp' \in dashboard_completo(co_curso)
    /\ UNCHANGED <<GABARITO_CACHE, DF_MAPA_CACHE, alunos, localidades, emCurso>>

(***************************************************************************)
(* GET /ies/{co_curso}/matriz                                              *)
(***************************************************************************)
\* groupby(['grande_area', 'subespecialidade']).agg(mean, nunique)
Matriz(df) ==
    LET medias == GroupByMean(df, Chave2(df))
    IN  [g \in DOMAIN medias |->
            [chave |-> medias[g].chave,
             acerto_medio |-> [num |-> 100 * medias[g].acerto.soma,
                               den |-> medias[g].acerto.n],
             volume_questoes |->
                Cardinality({df[k].nu_questao : k \in
                    {j \in DOMAIN df : Chave2(df)[j] = medias[g].chave}})]]

matriz_priorizacao(co_curso) ==
    LET m == calcular_metricas_curso(co_curso)
        base == [op |-> "matriz", co_curso |-> co_curso]
    IN  IF m.status = "None" THEN base @@ [status |-> 404]
        ELSE IF m.status = "KeyError" THEN base @@ [status |-> 500]
        ELSE base @@ [status |-> 200, matriz |-> Matriz(m.df)]

MatrizPriorizacao ==
    /\ resp.op = "none"
    /\ \E co_curso \in Cursos : resp' = matriz_priorizacao(co_curso)
    /\ UNCHANGED <<GABARITO_CACHE, DF_MAPA_CACHE, alunos, localidades, emCurso>>

(***************************************************************************)
(* GET /ies/{co_curso}/benchmark                                           *)
(***************************************************************************)
\* (acertos / total * 100) if total > 0 else 0, as the exact pair behind it
calcular_media_lista(lista) == Acumula(lista)

\* the media as the ratio num/den
MediaLista(ac) ==
    IF ac.total > 0 THEN [num |-> 100 * ac.acertos, den |-> ac.total]
    ELSE [num |-> 0, den |-> 1]

\* round(x, 2) and round(x - y, 2) in hundredths
Round2(x) == RoundHalfEven(100 * x.num, x.den)
Round2Dif(x, y) == RoundHalfEven(100 * (x.num * y.den - y.num * x.den), x.den * y.den)

obter_benchmark(co_curso) ==
    LET lista_ies == SelectSeq(alunos, LAMBDA a : a.co_curso = co_curso)
        lista_elite == SelectSeq(alunos, LAMBDA a : a.enamed_ies = "5")
        ies == calcular_media_lista(lista_ies)
        nac == calcular_media_lista(alunos)
        elite == calcular_media_lista(lista_elite)
        base == [op |-> "benchmark", co_curso |-> co_curso]
    IN  IF alunos = <<>> THEN base @@ [status |-> 404]
        ELSE IF ListaRaises(alunos) THEN base @@ [status |-> 500]
        ELSE base @@
             [status |-> 200,
              contagem |-> [ies |-> ies, nac |-> nac, elite |-> elite],
              performance |->
                 [ies_atual |-> Round2(MediaLista(ies)),
                  media_nacional |-> Round2(MediaLista(nac)),
                  media_elite_enamed_5 |-> Round2(MediaLista(elite))],
              gaps |->
                 [vs_nacional |-> Round2Dif(MediaLista(ies), MediaLista(nac)),
                  vs_elite |-> Round2Dif(MediaLista(ies), MediaLista(elite))]]

ObterBenchmark ==
    /\ resp.op = "none"
    /\ \E co_curso \in Cursos : resp' = obter_benchmark(co_curso)
    /\ UNCHANGED <<GABARITO_CACHE, DF_MAPA_CACHE, alunos, localidades, emCurso>>

(***************************************************************************)
(* GET /ies/{co_curso}/exportar                                            *)
(***************************************************************************)
\* the sum of the ratios of a sequence, as a ratio
RECURSIVE SomaFrac(_)
SomaFrac(fs) ==
    IF fs = <<>> THEN [num |-> 0, den |-> 1]
    ELSE LET r == SomaFrac(Tail(fs))
         IN  [num |-> Head(fs).num * r.den + r.num * Head(fs).den,
              den |-> Head(fs).den * r.den]

\* groupby(['aluno_registro_id', 'grande_area']).mean().unstack() * 100 and
\* the 'Média Geral (%)' column: one row per student in ascending id, the
\* areas of the student in ascending order
Relatorio(df) ==
    LET ids == {df[k].aluno_registro_id : k \in DOMAIN df}
        idsOrd == [n \in 1..Cardinality(ids) |->
                      CHOOSE i \in ids : Cardinality({j \in ids : j < i}) = n - 1]
    IN  [n \in DOMAIN idsOrd |->
            LET doAluno == SelectSeq(df, LAMBDA r : r.aluno_registro_id = idsOrd[n])
                areas == GroupByMean(doAluno, Chave1(doAluno))
                pcts == [g \in DOMAIN areas |->
                            [num |-> 100 * areas[g].acerto.soma,
                             den |-> areas[g].acerto.n]]
            IN  [aluno_registro_id |-> idsOrd[n],
                 areas |-> [g \in DOMAIN areas |->
                              [grande_area |-> areas[g].chave[1], pct |-> pcts[g]]],
                 media_geral |-> RoundHalfEven(100 * SomaFrac(pcts).num,
                                               SomaFrac(pcts).den * Len(pcts))]]

\* the statuses the request can end with.  With students but no joined row
\* the report is built from an empty frame: pandas versions differ on
\* unstack() of an empty grouped series, so the request ends with an empty
\* sheet or with an unhandled error.
exportar_excel(co_curso) ==
    LET m == calcular_metricas_curso(co_curso)
        base == [op |-> "exportar", co_curso |-> co_curso]
    IN  IF m.status = "None" THEN {base @@ [status |-> 404]}
        ELSE IF m.status = "KeyError" THEN {base @@ [status |-> 500]}
        ELSE IF m.df = <<>>
        THEN {base @@ [status |-> 200, relatorio |-> <<>>], base @@ [status |-> 500]}
        ELSE {base @@ [status |-> 200, relatorio |-> Relatorio(m.df)]}

ExportarExcel ==
    /\ resp.op = "none"
    /\ \E co_curso \in Cursos : resp' \in exportar_excel(co_curso)
    /\ UNCHANGED <<GABARITO_CACHE, DF_MAPA_CACHE, alunos, localidades, emCurso>>

(***************************************************************************)
(* GET /ies/{co_curso}/pdf                                                 *)
(***************************************************************************)
\* the positions of r_list that draw_rank reads: 0, 1 and 2 whatever the
\* length of the list, and the neighbours of pos_atual that exist
IndicesDrawRank(r_list, pos_atual) ==
    {0, 1, 2} \cup {v \in {pos_atual - 2, pos_atual - 1, pos_atual} :
                       0 <= v /\ v < Len(r_list)}

\* r_list[idx] raises IndexError
DrawRankRaises(r_list, pos_atual) ==
    \E idx \in IndicesDrawRank(r_list, pos_atual) : idx >= Len(r_list)

\* the bars of a ranking chart, in ascending index
DrawRank(r_list, pos_atual) ==
    LET idxs == IndicesDrawRank(r_list, pos_atual)
        ord == [n \in 1..Cardinality(idxs) |->
                   CHOOSE i \in idxs : Cardinality({j \in idxs : j < i}) = n - 1]
    IN  [n \in DOMAIN ord |->
            [lugar |-> ord[n] + 1, co_curso |-> r_list[ord[n] + 1].co_curso,
             media |-> r_list[ord[n] + 1].media]]

\* the data the report prints, or the status the request fails with: the
\* 404 of dashboard_completo and obter_benchmark is passed on, any other
\* exception is unhandled
RelatorioPdf(co_curso, dash) ==
    LET bench == obter_benchmark(co_curso)
        loc == SelectSeq(localidades, LAMBDA l : l.co_curso = co_curso)
        uf_atual == IF loc = <<>> THEN "" ELSE loc[1].sigla_estado
        nac == obter_ranking_ies(co_curso, "")
        reg == obter_ranking_ies(co_curso, uf_atual)
        base == [op |-> "pdf", co_curso |-> co_curso]
    IN  IF dash.status # 200 THEN base @@ [status |-> dash.status]
        ELSE IF bench.status # 200 THEN base @@ [status |-> bench.status]
        ELSE IF nac.status # "ok" \/ reg.status # "ok" THEN base @@ [status |-> 500]
        ELSE IF \/ DrawRankRaises(nac.ranking, nac.posicao)
                \/ DrawRankRaises(reg.ranking, reg.posicao)
        THEN base @@ [status |-> 500]
        ELSE base @@
             [status |-> 200, ies |-> dash.ies, uf |-> uf_atual,
              performance |-> bench.performance,
              nacional |-> DrawRank(nac.ranking, nac.posicao),
              regional |-> DrawRank(reg.ranking, reg.posicao),
              atencao |-> SubSeq(dash.atencao, 1, Min(5, Len(dash.atencao))),
              fortalezas |-> SubSeq(dash.fortalezas, 1, Min(5, Len(dash.fortalezas)))]

\* the answers the request can end with
gerar_pdf_visual(co_curso) ==
    {RelatorioPdf(co_curso, dash) : dash \in dashboard_completo(co_curso)}

GerarPdfVisual ==
    /\ resp.op = "none"
    /\ \E co_curso \in Cursos : resp' \in gerar_pdf_visual(co_curso)
    /\ UNCHANGED <<GABARITO_CACHE, DF_MAPA_CACHE, alunos, localidades, emCurso>>
Next ==
    \/ importar_alunos
    \/ Entregar
    \/ ObterRankingIes
    \/ CalcularMetricasCurso
    \/ ObterReferencialNacional
    \/ DashboardCompleto
    \/ MatrizPriorizacao
    \/ ObterBenchmark
    \/ ExportarExcel
    \/ GerarPdfVisual

Spec == Init /\ [][Next]_vars

(***************************************************************************)
(* Concurrent requests: the endpoints are plain `def` functions, which the *)
(* server runs on worker threads, so several handlers are between their    *)
(* first read of the two module globals and their reply at the same time,  *)
(* and importar_alunos may commit rows meanwhile.  emCurso holds, for each *)
(* running handler, the objects it found in the globals when it started.   *)
(***************************************************************************)
\* a request arrives and its handler starts
ReceberPedido ==
    /\ Len(emCurso) < MaxEmCurso
    /\ emCurso' = Append(emCurso, [gabarito_cache |-> GABARITO_CACHE,
                                   df_mapa_cache |-> DF_MAPA_CACHE])
    /\ UNCHANGED <<GABARITO_CACHE, DF_MAPA_CACHE, alunos, localidades, resp>>

\* what the handlers and helpers answer in the current state
Respostas ==
    {obter_ranking_ies(c, uf) : c \in Cursos, uf \in UFs \cup {""}}
    \cup {calcular_metricas_curso(c) @@ [op |-> "metricas", co_curso |-> c] :
             c \in Cursos}
    \cup {obter_referencial_nacional @@ [op |-> "referencial"]}
    \cup UNION {dashboard_completo(c) : c \in Cursos}
    \cup {matriz_priorizacao(c) : c \in Cursos}
    \cup {obter_benchmark(c) : c \in Cursos}
    \cup UNION {exportar_excel(c) : c \in Cursos}
    \cup UNION {gerar_pdf_visual(c) : c \in Cursos}

\* seq without its k-th element
Remove(seq, k) == SubSeq(seq, 1, k - 1) \o SubSeq(seq, k + 1, Len(seq))

\* ConcluirPedido of a handler that completes the key in place to
\* NumQuestoes symbols, the way calcular_metricas_curso completes the
\* responses: gab is the list object held by GABARITO_CACHE
ConcluirPedido_CompletaGabarito ==
    /\ resp.op = "none"
    /\ \E k \in DOMAIN emCurso : emCurso' = Remove(emCurso, k)
    /\ resp' \in Respostas
    /\ GABARITO_CACHE' =
          [c \in DOMAIN GABARITO_CACHE |->
              GABARITO_CACHE[c]
                  \o Rep(" ", NumQuestoes - Min(NumQuestoes, Len(GABARITO_CACHE[c])))]
    /\ UNCHANGED <<DF_MAPA_CACHE, alunos, localidades>>

\* one of the running handlers computes its answer and replies; the other
\* ones keep running
ConcluirPedido ==
    /\ resp.op = "none"
    /\ \E k \in DOMAIN emCurso : emCurso' = Remove(emCurso, k)
    /\ resp' \in Respostas
    /\ UNCHANGED <<GABARITO_CACHE, DF_MAPA_CACHE, alunos, localidades>>

NextConc ==
    \/ importar_alunos
    \/ ReceberPedido
    \/ ConcluirPedido
    \/ Entregar

SpecConc == Init /\ [][NextConc]_vars


(***************************************************************************)
(* Properties                                                              *)
(***************************************************************************)
\* the records of co_curso among `lista`
DoCurso(lista, co_curso) == SelectSeq(lista, LAMBDA a : a.co_curso = co_curso)

\* the key symbol of question q of booklet cad is an annulled marker
Anulada(cad, q) ==
    /\ CacheGet(cad) # <<>>
    /\ q <= Len(CacheGet(cad))
    /\ CacheGet(cad)[q] \in ANULADAS

\* the number of scored positions of `lista` whose key symbol is annulled
AnuladasPontuadas(lista) ==
    SumSeq([k \in DOMAIN lista |->
        Cardinality({i \in Posicoes(lista[k].respostas) :
                        Anulada(lista[k].co_caderno, i)})])

\* C1: in every scoring path a scored position whose key symbol is 'X', 'Z'
\* or '*' is recorded as correct, whatever the response symbol: every row of
\* calcular_metricas_curso and of the reference's lista_acertos at such a
\* position has acerto 1, and the acertos counted by obter_ranking_ies and by
\* calcular_media_lista include every such position
C1_AnuladaSempreCerta ==
    /\ (resp.op = "metricas" /\ resp.status = "ok") =>
          \A k \in DOMAIN resp.df :
              Anulada(resp.df[k].co_caderno, resp.df[k].nu_questao)
                  => resp.df[k].acerto = 1
    /\ (resp.op = "referencial" /\ resp.status # "IndexError") =>
          \A k \in DOMAIN resp.lista :
              Anulada(resp.lista[k].co_caderno, resp.lista[k].nu_questao)
                  => resp.lista[k].acerto = 1
    /\ (resp.op = "ranking" /\ resp.status = "ok") =>
          \A k \in DOMAIN resp.ranking :
              resp.ranking[k].acertos >=
                  AnuladasPontuadas(DoCurso(SelecionaAlunos(resp.uf),
                                            resp.ranking[k].co_curso))
    /\ (resp.op = "benchmark" /\ resp.status = 200) =>
          /\ resp.contagem.ies.acertos >=
                AnuladasPontuadas(DoCurso(alunos, resp.co_curso))
          /\ resp.contagem.nac.acertos >= AnuladasPontuadas(alunos)

\* a blank response at an annulled position has been counted by the ranking
C1_Witness ==
    /\ resp.op = "ranking" /\ resp.status = "ok"
    /\ Len(resp.ranking) = 1
    /\ resp.ranking[1].acertos = 1 /\ resp.ranking[1].total = 1
    /\ \E k \in DOMAIN alunos :
          alunos[k].respostas = <<" ">> /\ Anulada(alunos[k].co_caderno, 1)

\* the target institution scored no question in the selected population
SemQuestoes(co_curso, uf) ==
    Acumula(DoCurso(SelecionaAlunos(uf), co_curso)).total = 0

\* C2: a record whose booklet has no answer key contributes no scored
\* question: no row of calcular_metricas_curso or of the reference comes
\* from such a booklet, the ranking and benchmark totals do not count it,
\* and a dashboard request of an institution with such a record does not fail
C2_SemGabaritoIgnorado ==
    /\ (resp.op = "metricas" /\ resp.status = "ok") =>
          \A k \in DOMAIN resp.df : CacheGet(resp.df[k].co_caderno) # <<>>
    /\ (resp.op = "referencial" /\ resp.status # "IndexError") =>
          \A k \in DOMAIN resp.lista : CacheGet(resp.lista[k].co_caderno) # <<>>
    /\ (resp.op = "ranking" /\ resp.status = "ok") =>
          \A k \in DOMAIN resp.ranking :
              resp.ranking[k].total =
                  Acumula(ComGabarito(DoCurso(SelecionaAlunos(resp.uf),
                                              resp.ranking[k].co_curso))).total
    /\ (resp.op = "dashboard"
          /\ \E k \in DOMAIN alunos : /\ alunos[k].co_curso = resp.co_curso
                                      /\ CacheGet(alunos[k].co_caderno) = <<>>
          /\ ~ListaRaises(alunos) /\ DF_MAPA_CACHE # <<>>)
          => resp.status # 500

\* C3: when the target institution produced no scored question in the
\* selected population, it is not an entry of the ranking and the returned
\* position is 0
C3_AusenteDoRanking ==
    (resp.op = "ranking" /\ resp.status = "ok"
        /\ SemQuestoes(resp.co_curso, resp.uf))
    => /\ \A k \in DOMAIN resp.ranking : resp.ranking[k].co_curso # resp.co_curso
       /\ resp.posicao = 0

\* the index in `todos` of the first record of co_curso
PrimeiroRegistro(todos, co_curso) ==
    CHOOSE k \in DOMAIN todos :
        /\ todos[k].co_curso = co_curso
        /\ \A j \in 1..(k - 1) : todos[j].co_curso # co_curso

\* the exact ratio correct/total of x is greater than that of y (0 when the
\* total is 0)
RazaoMaior(x, y) ==
    LET nx == IF x.total > 0 THEN x.acertos ELSE 0
        dx == IF x.total > 0 THEN x.total ELSE 1
        ny == IF y.total > 0 THEN y.acertos ELSE 0
        dy == IF y.total > 0 THEN y.total ELSE 1
    IN  nx * dy > ny * dx

\* C4 as stated: an institution with a strictly greater exact ratio
\* correct/total appears earlier, and institutions with equal ratios appear
\* in the order in which their first record was encountered
C4_OrdemPelaRazaoExata ==
    (resp.op = "ranking" /\ resp.status = "ok") =>
        \A i, j \in DOMAIN resp.ranking :
            i < j =>
                /\ ~RazaoMaior(resp.ranking[j], resp.ranking[i])
                /\ ~RazaoMaior(resp.ranking[i], resp.ranking[j]) =>
                      PrimeiroRegistro(SelecionaAlunos(resp.uf), resp.ranking[i].co_curso)
                      < PrimeiroRegistro(SelecionaAlunos(resp.uf), resp.ranking[j].co_curso)

\* C4 amended: the list is ordered descending by the reported media (the
\* overall mean rounded to one decimal): an institution with a strictly
\* greater media appears earlier, and institutions with equal media appear in
\* the order in which their first record was encountered
C4_OrdemPelaMediaArredondada ==
    (resp.op = "ranking" /\ resp.status = "ok") =>
        \A i, j \in DOMAIN resp.ranking :
            i < j =>
                /\ resp.ranking[i].media >= resp.ranking[j].media
                /\ resp.ranking[i].media = resp.ranking[j].media =>
                      PrimeiroRegistro(SelecionaAlunos(resp.uf), resp.ranking[i].co_curso)
                      < PrimeiroRegistro(SelecionaAlunos(resp.uf), resp.ranking[j].co_curso)

\* the sort has moved the institution encountered second to the front
C4_Witness ==
    /\ resp.op = "ranking" /\ resp.status = "ok"
    /\ Len(resp.ranking) = 2
    /\ resp.ranking[1].media > resp.ranking[2].media
    /\ PrimeiroRegistro(SelecionaAlunos(resp.uf), resp.ranking[1].co_curso)
       > PrimeiroRegistro(SelecionaAlunos(resp.uf), resp.ranking[2].co_curso)

\* C5: when the target institution is an entry of the ranking, the returned
\* position is its 1-based index in the list, between 1 and total_count, and
\* total_count is the number of distinct institution codes of the list, each
\* appearing once
C5_PosicaoDoAlvo ==
    (resp.op = "ranking" /\ resp.status = "ok"
        /\ \E k \in DOMAIN resp.ranking : resp.ranking[k].co_curso = resp.co_curso)
    => /\ resp.posicao \in 1..resp.total
       /\ resp.ranking[resp.posicao].co_curso = resp.co_curso
       /\ resp.total = Len(resp.ranking)
       /\ resp.total = Cardinality({resp.ranking[k].co_curso : k \in DOMAIN resp.ranking})

\* the target institution is the second of two ranked institutions
C5_Witness ==
    /\ resp.op = "ranking" /\ resp.status = "ok"
    /\ resp.total = 2 /\ resp.posicao = 2
    /\ resp.ranking[2].co_curso = resp.co_curso


\* the keys of a grouped frame
Chaves(df) == {df[k].chave : k \in DOMAIN df}

\* the row of key ch in a grouped frame
Linha(df, ch) == df[CHOOSE k \in DOMAIN df : df[k].chave = ch]

\* C6: the comparison of the dashboard is an inner join on the full key:
\* every key of both the institution aggregate and the national reference
\* has exactly one gap record, with gap = (institution mean - reference
\* mean) * 100, and a key of only one side has no gap record
C6_JuncaoInterna ==
    (resp.op = "dashboard" /\ resp.status = 200) =>
        /\ \A ch \in Chaves(resp.agrupado_ies) \cap Chaves(resp.df_referencial) :
              /\ Cardinality({k \in DOMAIN resp.fortalezas :
                                  resp.fortalezas[k].chave = ch}) = 1
              /\ LET g == Linha(resp.fortalezas, ch).gap
                     i == Linha(resp.agrupado_ies, ch).acerto
                     r == Linha(resp.df_referencial, ch).acerto
                     d == 100 * (i.soma * r.n - r.soma * i.n)
                 IN  /\ ~RazaoLt(g.num, g.den, d, i.n * r.n)
                     /\ ~RazaoLt(d, i.n * r.n, g.num, g.den)
        /\ Chaves(resp.fortalezas)
              = Chaves(resp.agrupado_ies) \cap Chaves(resp.df_referencial)
        /\ Len(resp.atencao) = Len(resp.fortalezas)
        /\ Range(resp.atencao) = Range(resp.fortalezas)

\* a dashboard with a key of one side only and a joined key whose gap is not 0
C6_Witness ==
    /\ resp.op = "dashboard" /\ resp.status = 200
    /\ Chaves(resp.agrupado_ies) # Chaves(resp.df_referencial)
    /\ \E k \in DOMAIN resp.fortalezas : resp.fortalezas[k].gap.num # 0

\* C7: when the population consists only of the records of one institution,
\* the national reference has the institution's mean for every topic key:
\* the keys of both sides are the same and every gap is 0
C7_ReferencialIgualIes ==
    (resp.op = "dashboard" /\ resp.status = 200
        /\ \A k \in DOMAIN alunos : alunos[k].co_curso = resp.co_curso)
    => /\ Chaves(resp.agrupado_ies) = Chaves(resp.df_referencial)
       /\ \A k \in DOMAIN resp.fortalezas : resp.fortalezas[k].gap.num = 0

\* the institution has zero matched records: no student record, or no row
\* surviving the join with the topic mapping
SemRegistros(co_curso) ==
    \/ calcular_metricas_curso(co_curso).status = "None"
    \/ /\ calcular_metricas_curso(co_curso).status = "ok"
       /\ calcular_metricas_curso(co_curso).df = <<>>

\* C8: for an institution with zero matched records the dashboard, matriz,
\* benchmark and exportar endpoints answer 404 (stated for the requests whose
\* scoring loop does not raise)
C8_SemDados404 ==
    (resp.op \in {"dashboard", "matriz", "benchmark", "exportar"}
        /\ SemRegistros(resp.co_curso) /\ ~ListaRaises(alunos))
    => resp.status = 404

\* C9: for a record whose booklet has a key, scoring never raises when the
\* response string and the key differ in length, and it evaluates exactly
\* the positions up to the shorter of the two
C9_SemIndexError ==
    /\ resp.op \in {"ranking", "referencial"} => resp.status # "IndexError"
    /\ (resp.op = "benchmark" /\ alunos # <<>>) => resp.status = 200
    /\ (resp.op = "metricas" /\ resp.status = "ok") =>
          \A k \in DOMAIN resp.df :
              \A a \in Range(alunos) :
                  (a.id = resp.df[k].aluno_registro_id /\ CacheGet(a.co_caderno) # <<>>)
                  => resp.df[k].nu_questao
                        <= Min(Len(a.respostas), Len(CacheGet(a.co_caderno)))

\* C10: the join with the topic mapping gives at most one row per scored
\* question, so the joined rows are never more than the scored questions
C10_JuncaoConservadora ==
    /\ (resp.op = "metricas" /\ resp.status = "ok") =>
          \A i, j \in DOMAIN resp.df :
              (/\ resp.df[i].aluno_registro_id = resp.df[j].aluno_registro_id
               /\ resp.df[i].nu_questao = resp.df[j].nu_questao) => i = j
    /\ (resp.op = "referencial" /\ resp.status = "ok") =>
          SumSeq([k \in DOMAIN resp.df |-> resp.df[k].acerto.n]) <= Len(resp.lista)

\* C11: every ratio of obter_ranking_ies and of calcular_media_lista is
\* guarded: a group with 0 scored questions has the mean 0, and every mean
\* is a number between 0 and 100 per cent (no error value, NaN or infinity)
C11_RazaoGuardada ==
    /\ (resp.op = "ranking" /\ resp.status = "ok") =>
          \A k \in DOMAIN resp.ranking :
              /\ resp.ranking[k].total = 0 => resp.ranking[k].media = 0
              /\ resp.ranking[k].media \in 0..1000
    /\ (resp.op = "benchmark" /\ resp.status = 200) =>
          /\ resp.contagem.ies.total = 0 => resp.performance.ies_atual = 0
          /\ resp.contagem.nac.total = 0 => resp.performance.media_nacional = 0
          /\ resp.contagem.elite.total = 0 =>
                resp.performance.media_elite_enamed_5 = 0
          /\ \A f \in DOMAIN resp.performance : resp.performance[f] \in 0..10000

\* a ranking with an institution that scored no question, beside one that did
C11_Witness ==
    /\ resp.op = "ranking" /\ resp.status = "ok"
    /\ \E j, k \in DOMAIN resp.ranking :
          /\ resp.ranking[j].total = 0 /\ resp.ranking[j].media = 0
          /\ resp.ranking[k].total > 0 /\ resp.ranking[k].media > 0

\* C12: after startup no handler or helper modifies GABARITO_CACHE or
\* DF_MAPA_CACHE: under any interleaving of concurrent requests no step
\* changes either of them, and every running handler finds in them the
\* objects it found when it started
C12_CachesSoLeitura ==
    /\ [][GABARITO_CACHE' = GABARITO_CACHE /\ DF_MAPA_CACHE' = DF_MAPA_CACHE]_vars
    /\ [](\A k \in DOMAIN emCurso :
             /\ emCurso[k].gabarito_cache = GABARITO_CACHE
             /\ emCurso[k].df_mapa_cache = DF_MAPA_CACHE)

\* a dashboard request has been answered while another handler, started
\* before a row was imported, is still running
C12_Witness ==
    /\ resp.op = "dashboard" /\ resp.status = 200
    /\ Len(emCurso) = 1
    /\ Len(alunos) = MaxAlunos
    /\ GABARITO_CACHE # <<>> /\ DF_MAPA_CACHE # <<>>

\* the index of the record `rec` in df
IndiceEm(df, rec) == CHOOSE i \in DOMAIN df : df[i] = rec

\* the records of `lista` that have the same gap come in the order they
\* have in df
EmpatesNaOrdemDe(lista, df) ==
    \A j, k \in DOMAIN lista :
        (j < k /\ ~GapLt(lista[j], lista[k]) /\ ~GapLt(lista[k], lista[j]))
        => IndiceEm(df, lista[j]) < IndiceEm(df, lista[k])

\* C13: in a dashboard answer 'fortalezas' and 'atencao' are permutations
\* of the same gap records, 'fortalezas' in non-increasing and 'atencao' in
\* non-decreasing gap order, and in each list the records of equal gap keep
\* the order in which the comparison produced them
C13_OrdenadoEstavel ==
    (resp.op = "dashboard" /\ resp.status = 200) =>
        LET df == Comparativo(resp.agrupado_ies, resp.df_referencial)
            f == resp.fortalezas
            a == resp.atencao
        IN  /\ Len(f) = Len(df) /\ Len(a) = Len(df)
            /\ Range(f) = Range(df) /\ Range(a) = Range(df)
            /\ \A j, k \in DOMAIN f : j < k => ~GapLt(f[j], f[k])
            /\ \A j, k \in DOMAIN a : j < k => ~GapLt(a[k], a[j])
            /\ EmpatesNaOrdemDe(f, df)
            /\ EmpatesNaOrdemDe(a, df)

\* the response symbol of the student `id` and the key symbol of the
\* booklet are the same character at position q
SimboloIdentico(id, q) ==
    LET al == alunos[id]
        gab == CacheGet(al.co_caderno)
    IN  q <= Len(al.respostas) /\ q <= Len(gab) /\ al.respostas[q] = gab[q]

\* position q of the student `id` is within the response and the key, and
\* the key symbol there is not annulled
PosicaoComum(id, q) ==
    /\ q <= Len(alunos[id].respostas)
    /\ q <= Len(CacheGet(alunos[id].co_caderno))
    /\ ~Anulada(alunos[id].co_caderno, q)

\* the number of scored positions of `lista` that are annulled or hold the
\* very symbol of the key
IdenticasOuAnuladas(lista) ==
    SumSeq([k \in DOMAIN lista |->
        Cardinality({i \in Posicoes(lista[k].respostas) :
                        \/ Anulada(lista[k].co_caderno, i)
                        \/ SimboloIdentico(lista[k].id, i)})])

\* C14: scoring compares the raw symbols, with no trimming or upper-casing:
\* at a position that is not annulled a row of calcular_metricas_curso or of
\* the reference's lista_acertos has acerto 1 exactly when the response
\* symbol is the very symbol of the key, and the acertos of the ranking and
\* of the benchmark count exactly those positions and the annulled ones
C14_SimbolosBrutos ==
    /\ (resp.op = "metricas" /\ resp.status = "ok") =>
          \A k \in DOMAIN resp.df :
              PosicaoComum(resp.df[k].aluno_registro_id, resp.df[k].nu_questao)
              => (resp.df[k].acerto = 1
                    <=> SimboloIdentico(resp.df[k].aluno_registro_id,
                                        resp.df[k].nu_questao))
    /\ (resp.op = "referencial" /\ resp.status = "ok") =>
          \A k \in DOMAIN resp.lista :
              PosicaoComum(resp.lista[k].aluno_registro_id, resp.lista[k].nu_questao)
              => (resp.lista[k].acerto = 1
                    <=> SimboloIdentico(resp.lista[k].aluno_registro_id,
                                        resp.lista[k].nu_questao))
    /\ (resp.op = "ranking" /\ resp.status = "ok") =>
          \A k \in DOMAIN resp.ranking :
              resp.ranking[k].acertos =
                  IdenticasOuAnuladas(ComGabarito(
                      DoCurso(SelecionaAlunos(resp.uf), resp.ranking[k].co_curso)))
    /\ (resp.op = "benchmark" /\ resp.status = 200) =>
          resp.contagem.nac.acertos = IdenticasOuAnuladas(ComGabarito(alunos))

\* the population yields no scored question: there is no record, or no
\* record whose booklet has a key holds a response symbol
PopulacaoSemQuestoes ==
    \A k \in DOMAIN alunos :
        CacheGet(alunos[k].co_caderno) = <<>> \/ alunos[k].respostas = <<>>

\* C15: over a population that yields zero scored questions the reference
\* computation does not raise, and a dashboard request that reaches it does
\* not end with an unhandled error
C15_ReferencialSemDados ==
    PopulacaoSemQuestoes =>
        /\ resp.op = "referencial" => resp.status = "ok"
        /\ (resp.op = "dashboard"
              /\ calcular_metricas_curso(resp.co_curso).status = "ok"
              /\ calcular_metricas_curso(resp.co_curso).df # <<>>)
              => resp.status # 500

\* the institution codes whose Localidade row has the region uf
CursosDaRegiao(uf) ==
    {localidades[k].co_curso :
        k \in {j \in DOMAIN localidades : localidades[j].sigla_estado = uf}}

\* the institution codes that have student records
CursosComRegistros == {alunos[k].co_curso : k \in DOMAIN alunos}

\* C16: with a region filter every institution of the returned ranking has
\* its code among the codes whose Localidade has that region, and the
\* ranking and total_count cover exactly the institutions of the region that
\* have records; with no filter they cover every institution with records
C16_FiltroDeRegiao ==
    (resp.op = "ranking" /\ resp.status = "ok") =>
        LET codigos == {resp.ranking[k].co_curso : k \in DOMAIN resp.ranking}
        IN  /\ resp.total = Cardinality(codigos)
            /\ resp.total = Len(resp.ranking)
            /\ resp.uf # "" =>
                  /\ codigos \subseteq CursosDaRegiao(resp.uf)
                  /\ codigos = CursosDaRegiao(resp.uf) \cap CursosComRegistros
            /\ resp.uf = "" => codigos = CursosComRegistros

\* a regional ranking that leaves out an institution of another region that
\* has records
C16_Witness ==
    /\ resp.op = "ranking" /\ resp.status = "ok" /\ resp.uf = "SP"
    /\ resp.total = 1
    /\ resp.ranking[1].co_curso \in CursosDaRegiao("SP")
    /\ \E c \in CursosComRegistros : c \notin CursosDaRegiao("SP")

\* every record sat a booklet with a key of NumQuestoes symbols and exactly
\* one mapping row for each of its questions
CadernosCompletos ==
    \A k \in DOMAIN alunos :
        /\ Len(CacheGet(alunos[k].co_caderno)) = NumQuestoes
        /\ \A q \in 1..NumQuestoes :
              Cardinality({j \in DOMAIN DF_MAPA_CACHE :
                              /\ DF_MAPA_CACHE[j].co_caderno = alunos[k].co_caderno
                              /\ DF_MAPA_CACHE[j].nu_questao = q}) = 1

\* C17: when every record's booklet is complete, the dashboard's
\* media_geral, before rounding, is the benchmark's ies_atual, before
\* rounding, of the same institution, whatever the lengths of the response
\* strings
C17_MediasIguais ==
    (resp.op = "dashboard" /\ resp.status = 200 /\ CadernosCompletos) =>
        LET b == MediaLista(calcular_media_lista(DoCurso(alunos, resp.co_curso)))
        IN  100 * resp.media_geral_ies.soma * b.den = b.num * resp.media_geral_ies.n

====
